---- MODULE Spec2Model ----
(***************************************************************************)
(* State-machine model of the WhatsApp-to-Salesforce bot (src/server.js).  *)
(* The process is a single-threaded event loop: every handler runs         *)
(* atomically from one `await` to the next, so every action below is one   *)
(* such run-to-suspension segment of a handler.                            *)
(*                                                                         *)
(* Strings are sequences of one-character strings, so that trim(),         *)
(* replace(/\D/g,''), includes() and toLowerCase() are computed.           *)
(*                                                                         *)
(* The earlier build of the server (src/unnamed/part_000) is modelled too: *)
(* its handlers are the Legacy... actions and TimerFired.                  *)
(***************************************************************************)
EXTENDS Integers, Sequences, FiniteSets, TLC

\* ------------------------------------------------------------------ bounds
\* Deliveries of the scripted opening dialogue, each handled to its end
\* before the next (the warm-up), before events arrive in any order.
MaxWarm == 5
\* Records in all Histories, past the warm-up, up to which events are admitted.
MaxRecords == 3
\* The same two bounds for the scripted dialogue of SpecHappy.
HappyWarm == 6
HappyRecords == 1
\* The same two bounds for the scripted dialogue of SpecEmail.
EmailWarm == 5
EmailRecords == 1
\* Handlers suspended at an await at the same time.
MaxInFlight == 2
\* Collaborator failures (send, create, login) the environment injects.
MaxFailures == 1

\* ----------------------------------------------------------------- strings
\* undefined and null: no string of characters equals them
Undefined == <<"undefined">>
Null == <<"null">>

Digits == {"0", "1", "2", "3", "4", "5", "6", "7", "8", "9"}
Whitespace == {" "}

\* String.prototype.replace(/\D/g, '')
StripNonDigits(s) == SelectSeq(s, LAMBDA c : c \in Digits)

RECURSIVE TrimStart(_)
TrimStart(s) ==
    IF s # <<>> /\ Head(s) \in Whitespace THEN TrimStart(Tail(s)) ELSE s

RECURSIVE TrimEnd(_)
TrimEnd(s) ==
    IF s # <<>> /\ s[Len(s)] \in Whitespace
    THEN TrimEnd(SubSeq(s, 1, Len(s) - 1)) ELSE s

\* String.prototype.trim()
Trim(s) == TrimEnd(TrimStart(s))

\* String.prototype.includes(c) for a one-character c
Includes(s, c) == \E i \in 1..Len(s) : s[i] = c

LowerOf(c) ==
    CASE c = "A" -> "a" [] c = "E" -> "e" [] c = "R" -> "r"
      [] c = "S" -> "s" [] c = "T" -> "t" [] OTHER -> c

\* String.prototype.toLowerCase()
ToLowerCase(s) == [i \in 1..Len(s) |-> LowerOf(s[i])]

\* ------------------------------------------------------------ input universe
\* message.from: the canonical digits and a '+'-prefixed form of the same number
PlainPhone == <<"1">>
PlusPhone == <<"+", "1">>
\* a number that never writes and is never written to
OtherPhone == <<"2">>
Phones == {PlainPhone, PlusPhone}

\* message.text.body
TName == <<"J">>
TEmail == <<"j", "@", "x", ".", "c">>
TRestart == <<"S", "t", "a", "r", "t", " ">>
TAt == <<"j", "@", "x">>
TDot == <<"x", ".", "c">>
Bodies == {TName, TEmail, TRestart}

\* ids the CRM returns for a created Lead
LeadIds == {<<"Q", "1">>, <<"Q", "2">>}

\* --------------------------------------------------------------- constants
STAGES ==
    [INITIAL |-> "INITIAL", ASKED_FIRST_NAME |-> "ASKED_FIRST_NAME",
     ASKED_LAST_NAME |-> "ASKED_LAST_NAME", ASKED_EMAIL |-> "ASKED_EMAIL",
     ASKED_PHONE |-> "ASKED_PHONE", ASKED_REQUIREMENT |-> "ASKED_REQUIREMENT",
     COMPLETED |-> "COMPLETED", HANDOFF |-> "HANDOFF"]

VARIABLES
    conversations,   \* Map: key -> reference (id in heap) of a conversation object
    heap,            \* the conversation objects: id -> [stage, data]
    messageHistory,  \* Map: key -> array of {sender, message, timestamp}
    handoffMode,     \* Map: key -> boolean
    sfConnection,    \* TRUE when the jsforce connection is set, FALSE when null
    calls,           \* slot -> handler suspended at an await (or Idle)
    failures,        \* collaborator failures injected so far
    env,             \* the environment's universe of inputs (never changes)
    phase,           \* the environment's schedule: warm-up, then open
    timers           \* key -> pending setTimeout callbacks (legacy build only)

vars == <<conversations, heap, messageHistory, handoffMode, sfConnection,
          calls, failures, env, phase, timers>>

stores == <<conversations, heap, messageHistory, handoffMode>>

Slots == 1..MaxInFlight

\* new Date(): the clock of the model ticks once for every stored record
RECURSIVE SumLen(_, _)
SumLen(hist, S) ==
    IF S = {} THEN 0
    ELSE LET k == CHOOSE x \in S : TRUE
         IN  Len(hist[k]) + SumLen(hist, S \ {k})
TotalRecords(hist) == SumLen(hist, DOMAIN hist)
Now(hist) == TotalRecords(hist)
Idle == [pc |-> "idle", kind |-> Null, userPhone |-> Null, reply |-> Null,
         conv |-> 0, lead |-> Null]

\* ------------------------------------------------------------------- maps
MapSet(m, k, v) == (k :> v) @@ m
MapDelete(m, k) == [x \in DOMAIN m \ {k} |-> m[x]]
MapHas(m, k) == k \in DOMAIN m

\* obj.field, undefined when the property is absent
Get(obj, f) == IF f \in DOMAIN obj THEN obj[f] ELSE Undefined

\* ----------------------------------------------------------------- history
\* storeMessage gone wrong: the array is set anew with the record alone
storeMessage_Replace(hist, phoneNumber, sender, message) ==
    MapSet(hist, StripNonDigits(phoneNumber),
           <<[sender |-> sender, message |-> message,
              timestamp |-> Now(hist)]>>)

\* storeMessage: push {sender, message, timestamp} on the array of cleanPhone
storeMessage(hist, phoneNumber, sender, message) ==
    LET cleanPhone == StripNonDigits(phoneNumber)
        arr == IF MapHas(hist, cleanPhone) THEN hist[cleanPhone] ELSE <<>>
    IN  MapSet(hist, cleanPhone,
               Append(arr, [sender |-> sender, message |-> message,
                            timestamp |-> Now(hist)]))

isHandoffMode(hm, phoneNumber) ==
    LET cleanPhone == StripNonDigits(phoneNumber)
    IN  MapHas(hm, cleanPhone) /\ hm[cleanPhone] = TRUE

setHandoffMode(hm, phoneNumber, mode) ==
    MapSet(hm, StripNonDigits(phoneNumber), mode)

\* ---------------------------------------------------------------- replies
\* A reply is its template and the values interpolated into it.
Reply(tpl, name, ref) == [tpl |-> tpl, name |-> name, ref |-> ref]
NoReply == Reply("", <<>>, <<>>)
Greeting == Reply("greeting", <<>>, <<>>)
AskLastName(userMessage) == Reply("askLastName", userMessage, <<>>)
AskEmail == Reply("askEmail", <<>>, <<>>)
InvalidEmail == Reply("invalidEmail", <<>>, <<>>)
AskPhone == Reply("askPhone", <<>>, <<>>)
AskRequirement == Reply("askRequirement", <<>>, <<>>)
ThankYou(firstName, leadId) == Reply("thankYou", firstName, leadId)
LeadFailed == Reply("leadFailed", <<>>, <<>>)
AlreadySubmitted == Reply("alreadySubmitted", <<>>, <<>>)
SomethingWrong == Reply("somethingWrong", <<>>, <<>>)
\* the text a sales agent sends is passed through as it is
AgentText(message) == Reply("agent", message, <<>>)

\* ------------------------------------------------------------------- heap
\* A fresh object reference: the lowest id no live object has.
NewId(hp) ==
    CHOOSE i \in 1..(Cardinality(DOMAIN hp) + 1) :
        /\ i \notin DOMAIN hp
        /\ \A j \in 1..(i - 1) : j \in DOMAIN hp

\* Garbage collection: objects neither in the Map nor held by a handler.
Collect(hp, convs, cs) ==
    LET live == {convs[k] : k \in DOMAIN convs}
                  \cup {cs[s].conv : s \in {t \in DOMAIN cs : cs[t].pc # "idle"}}
    IN  [i \in DOMAIN hp \cap live |-> hp[i]]

SetStage(hp, id, stage) == [hp EXCEPT ![id].stage = stage]
SetData(hp, id, f, v) == [hp EXCEPT ![id].data = MapSet(@, f, v)]

\* ------------------------------------------------------------- Salesforce
\* LeadRecord gone wrong: Company is built last name first
LeadRecord_CompanyReversed(data) ==
    [FirstName |-> Get(data, "firstName"),
     LastName |-> Get(data, "lastName"),
     Company |-> Get(data, "lastName") \o <<" ">> \o Get(data, "firstName"),
     Email |-> Get(data, "email"),
     Phone |-> Get(data, "phone"),
     Description |-> Get(data, "requirement"),
     WhatsApp_Number__c |-> Get(data, "whatsappNumber"),
     WhatsApp_Message__c |-> Get(data, "requirement"),
     WhatsApp_Conversation_ID__c |-> Get(data, "whatsappNumber")]

\* the record createLeadInSalesforce builds from conversation.data
LeadRecord(data) ==
    [FirstName |-> Get(data, "firstName"),
     LastName |-> Get(data, "lastName"),
     Company |-> Get(data, "firstName") \o <<" ">> \o Get(data, "lastName"),
     Email |-> Get(data, "email"),
     Phone |-> Get(data, "phone"),
     Description |-> Get(data, "requirement"),
     WhatsApp_Number__c |-> Get(data, "whatsappNumber"),
     WhatsApp_Message__c |-> Get(data, "requirement"),
     WhatsApp_Conversation_ID__c |-> Get(data, "whatsappNumber")]

\* what sobject('Lead').create can answer: {success, id}, or it throws
CreateOutcomes ==
    {[success |-> TRUE, id |-> l, throws |-> FALSE] : l \in LeadIds}
      \cup {[success |-> FALSE, id |-> <<>>, throws |-> FALSE],
            [success |-> FALSE, id |-> <<>>, throws |-> TRUE]}

\* createLeadInSalesforce's return value for an outcome of create
LeadIdOf(outcome) ==
    IF outcome.throws THEN Null
    ELSE IF outcome.success THEN outcome.id ELSE Null

\* --------------------------------------------------------- handleConversation
IsRestart(userMessage) ==
    \/ ToLowerCase(userMessage) = <<"r", "e", "s", "t", "a", "r", "t">>
    \/ ToLowerCase(userMessage) = <<"s", "t", "a", "r", "t">>

\* EmailRejected gone wrong: only the '@' is looked for
EmailRejected_OnlyAt(userMessage) ==
    ~Includes(userMessage, "@")

\* EmailRejected gone wrong: a text is rejected when it lacks both characters
EmailRejected_LacksBoth(userMessage) ==
    ~Includes(userMessage, "@") /\ ~Includes(userMessage, ".")

EmailRejected(userMessage) ==
    ~Includes(userMessage, "@") \/ ~Includes(userMessage, ".")

\* The handler has left the switch by `break`: conversations.set, then the
\* call of sendWhatsAppMessage, at whose await it suspends.
Commit(convs, hp, userPhone, id, reply) ==
    [conversations |-> MapSet(convs, userPhone, id), heap |-> hp,
     pc |-> "send", reply |-> reply, conv |-> id, lead |-> Null]

\* handleConversation from its entry to its first await (or its return).
RECURSIVE HandleConversation(_, _, _, _, _)
HandleConversation(convs, hp, sf, userPhone, userMessage) ==
    LET existing == MapHas(convs, userPhone)
        id == IF existing THEN convs[userPhone] ELSE NewId(hp)
        hp0 == IF existing THEN hp
               ELSE MapSet(hp, id, [stage |-> STAGES.INITIAL, data |-> <<>>])
        stage == hp0[id].stage
    IN  CASE stage = STAGES.INITIAL ->
               Commit(convs, SetStage(hp0, id, STAGES.ASKED_FIRST_NAME),
                      userPhone, id, Greeting)
          [] stage = STAGES.ASKED_FIRST_NAME ->
               Commit(convs,
                      SetStage(SetData(hp0, id, "firstName", userMessage),
                               id, STAGES.ASKED_LAST_NAME),
                      userPhone, id, AskLastName(userMessage))
          [] stage = STAGES.ASKED_LAST_NAME ->
               Commit(convs,
                      SetStage(SetData(hp0, id, "lastName", userMessage),
                               id, STAGES.ASKED_EMAIL),
                      userPhone, id, AskEmail)
          [] stage = STAGES.ASKED_EMAIL ->
               IF EmailRejected(userMessage)
               THEN Commit(convs, hp0, userPhone, id, InvalidEmail)
               ELSE Commit(convs,
                           SetStage(SetData(hp0, id, "email", userMessage),
                                    id, STAGES.ASKED_PHONE),
                           userPhone, id, AskPhone)
          [] stage = STAGES.ASKED_PHONE ->
               Commit(convs,
                      SetStage(SetData(hp0, id, "phone", userMessage),
                               id, STAGES.ASKED_REQUIREMENT),
                      userPhone, id, AskRequirement)
          [] stage = STAGES.ASKED_REQUIREMENT ->
               LET hp1 == SetData(SetData(hp0, id, "requirement", userMessage),
                                  id, "whatsappNumber", userPhone)
               IN  \* createLeadInSalesforce: login first when not connected,
                   \* else build the record and call create
                   [conversations |-> convs, heap |-> hp1,
                    pc |-> IF sf THEN "create" ELSE "connect",
                    reply |-> NoReply, conv |-> id,
                    lead |-> IF sf THEN LeadRecord(hp1[id].data) ELSE Null]
          [] stage = STAGES.COMPLETED ->
               IF IsRestart(userMessage)
               THEN HandleConversation(MapDelete(convs, userPhone), hp0, sf,
                                       userPhone, <<"H", "i">>)
               ELSE Commit(convs, hp0, userPhone, id, AlreadySubmitted)
          [] stage = STAGES.HANDOFF ->
               [conversations |-> convs, heap |-> hp0, pc |-> "return",
                reply |-> NoReply, conv |-> id, lead |-> Null]

\* ------------------------------------------------------------ the handlers
\* the environment delivers a new event
Admit == TotalRecords(messageHistory) < phase.limit

FreeSlots == {s \in Slots : s <= env.maxInFlight /\ calls[s].pc = "idle"}
\* a handler that suspends takes the lowest free slot
Suspend(call) ==
    /\ FreeSlots # {}
    /\ LET s == CHOOSE t \in FreeSlots : \A u \in FreeSlots : t <= u
       IN  calls' = [calls EXCEPT ![s] = call]

Release(s) == calls' = [calls EXCEPT ![s] = Idle]

\* a collaborator call fails: the environment has failures left to inject
Fail == failures < env.maxFailures /\ failures' = failures + 1

\* POST /webhook with a message: storeMessage, the handoff check, and
\* handleConversation up to its first await
Webhook(from, body) ==
    /\ Admit
    /\ from # Undefined
    /\ LET messageText == IF body = Undefined THEN <<>> ELSE Trim(body)
           hist == storeMessage(messageHistory, from, "customer", messageText)
       IN  IF isHandoffMode(handoffMode, from)
           THEN /\ messageHistory' = hist
                /\ UNCHANGED <<conversations, heap, handoffMode, sfConnection,
                               calls, failures, env, phase, timers>>
           ELSE LET r == HandleConversation(conversations, heap, sfConnection,
                                            from, messageText)
                IN  /\ messageHistory' = hist
                    /\ conversations' = r.conversations
                    /\ IF r.pc = "return" THEN UNCHANGED calls
                       ELSE Suspend([pc |-> r.pc, kind |-> "inbound",
                                     userPhone |-> from, reply |-> r.reply,
                                     conv |-> r.conv, lead |-> r.lead])
                    /\ heap' = Collect(r.heap, conversations', calls')
                    /\ UNCHANGED <<handoffMode, sfConnection, failures, env, phase, timers>>

\* POST /webhook with a message that has no `from`: storeMessage throws on
\* phoneNumber.replace and the handler's catch logs it
WebhookNoSender(from, body) ==
    /\ Admit
    /\ from = Undefined
    /\ UNCHANGED vars

\* AfterCreateLead gone wrong: the stage is COMPLETED whatever was returned
AfterCreateLead_AlwaysCompleted(s, leadId) ==
    LET c == calls[s]
        id == c.conv
        reply == IF leadId # Null
                 THEN ThankYou(Get(heap[id].data, "firstName"), leadId)
                 ELSE LeadFailed
    IN  /\ conversations' = MapSet(conversations, c.userPhone, id)
        /\ calls' = [calls EXCEPT ![s] = [c EXCEPT !.pc = "send",
                                                   !.reply = reply,
                                                   !.lead = Null]]
        /\ heap' = Collect(SetStage(heap, id, STAGES.COMPLETED),
                           conversations', calls')

\* handleConversation after createLeadInSalesforce returned leadId
AfterCreateLead(s, leadId) ==
    LET c == calls[s]
        id == c.conv
        hp == IF leadId # Null THEN SetStage(heap, id, STAGES.COMPLETED)
              ELSE heap
        reply == IF leadId # Null
                 THEN ThankYou(Get(heap[id].data, "firstName"), leadId)
                 ELSE LeadFailed
    IN  /\ conversations' = MapSet(conversations, c.userPhone, id)
        /\ calls' = [calls EXCEPT ![s] = [c EXCEPT !.pc = "send",
                                                   !.reply = reply,
                                                   !.lead = Null]]
        /\ heap' = Collect(hp, conversations', calls')

\* connectToSalesforce, awaited by createLeadInSalesforce, is over: the record
\* is built now, and create is called on the connection (a TypeError on null)
ConnectDone(s, ok) ==
    /\ calls[s].pc = "connect"
    /\ IF ok THEN UNCHANGED failures ELSE Fail
    /\ sfConnection' = (sfConnection \/ ok)
    /\ IF sfConnection'
       THEN /\ calls' = [calls EXCEPT ![s] =
                           [@ EXCEPT !.pc = "create",
                                     !.lead =
                                        LeadRecord(heap[calls[s].conv].data)]]
            /\ UNCHANGED <<conversations, heap>>
       ELSE AfterCreateLead(s, Null)
    /\ UNCHANGED <<messageHistory, handoffMode, env, phase, timers>>

\* sobject('Lead').create is over
CreateDone(s, outcome) ==
    /\ calls[s].pc = "create"
    /\ IF outcome.success /\ ~outcome.throws THEN UNCHANGED failures ELSE Fail
    /\ AfterCreateLead(s, LeadIdOf(outcome))
    /\ UNCHANGED <<messageHistory, handoffMode, sfConnection, env, phase, timers>>

\* SendDone gone wrong: the catch block rolls the committed transition back
SendDone_Rollback(s, ok) ==
    /\ calls[s].pc = "send"
    /\ calls[s].kind = "inbound"
    /\ IF ok
       THEN /\ messageHistory' = storeMessage(messageHistory, calls[s].userPhone,
                                              "bot", calls[s].reply)
            /\ Release(s)
            /\ UNCHANGED <<failures, conversations>>
       ELSE /\ Fail
            /\ calls' = [calls EXCEPT ![s] = [@ EXCEPT !.pc = "sorry",
                                                       !.reply = SomethingWrong]]
            /\ conversations' = MapDelete(conversations, calls[s].userPhone)
            /\ UNCHANGED messageHistory
    /\ heap' = Collect(heap, conversations', calls')
    /\ UNCHANGED <<handoffMode, sfConnection, env, phase, timers>>

\* the send of the bot's reply is over: storeMessage, or the catch block,
\* which sends the apology
SendDone(s, ok) ==
    /\ calls[s].pc = "send"
    /\ calls[s].kind = "inbound"
    /\ IF ok
       THEN /\ messageHistory' = storeMessage(messageHistory, calls[s].userPhone,
                                              "bot", calls[s].reply)
            /\ Release(s)
            /\ UNCHANGED failures
       ELSE /\ Fail
            /\ calls' = [calls EXCEPT ![s] = [@ EXCEPT !.pc = "sorry",
                                                       !.reply = SomethingWrong]]
            /\ UNCHANGED messageHistory
    /\ heap' = Collect(heap, conversations, calls')
    /\ UNCHANGED <<conversations, handoffMode, sfConnection, env, phase, timers>>

\* the send of the apology is over; sent or not, the handler ends
SorryDone(s) ==
    /\ calls[s].pc = "sorry"
    /\ Release(s)
    /\ heap' = Collect(heap, conversations, calls')
    /\ UNCHANGED <<conversations, messageHistory, handoffMode, sfConnection,
                   failures, env, phase, timers>>

\* POST /api/send-message up to the await of sendWhatsAppMessage
SendMessageApi(phoneNumber, message) ==
    /\ Admit
    /\ IF phoneNumber \in {Undefined, <<>>} \/ message \in {Undefined, <<>>}
       THEN UNCHANGED calls
       ELSE Suspend([pc |-> "send", kind |-> "sales",
                     userPhone |-> StripNonDigits(phoneNumber),
                     reply |-> AgentText(message), conv |-> 0, lead |-> Null])
    /\ UNCHANGED <<conversations, heap, messageHistory, handoffMode,
                   sfConnection, failures, env, phase, timers>>

\* the answer of POST /api/send-message once the send is over: 200 from the
\* try block, 500 from the catch block
SendMessageResponse(ok) ==
    IF ok THEN [status |-> 200, success |-> TRUE]
    ELSE [status |-> 500, success |-> FALSE]

\* AgentSendDone gone wrong: the record is stored whatever the send did
AgentSendDone_StoreFirst(s, ok) ==
    /\ calls[s].pc = "send"
    /\ calls[s].kind = "sales"
    /\ Release(s)
    /\ messageHistory' = storeMessage(messageHistory, calls[s].userPhone,
                                      "sales", calls[s].reply)
    /\ IF ok
       THEN LET cleanPhone == calls[s].userPhone
                existing == MapHas(conversations, cleanPhone)
                id == IF existing THEN conversations[cleanPhone]
                      ELSE NewId(heap)
                hp == IF existing THEN heap
                      ELSE MapSet(heap, id, [stage |-> STAGES.INITIAL,
                                             data |-> <<>>])
            IN  /\ handoffMode' = setHandoffMode(handoffMode, cleanPhone, TRUE)
                /\ conversations' = MapSet(conversations, cleanPhone, id)
                /\ heap' = Collect(SetStage(hp, id, STAGES.HANDOFF),
                                   conversations', calls')
                /\ UNCHANGED failures
       ELSE /\ Fail
            /\ UNCHANGED <<conversations, heap, handoffMode>>
    /\ UNCHANGED <<sfConnection, env, phase, timers>>

\* POST /api/send-message after the send: history, handoff mode and stage
AgentSendDone(s, ok) ==
    /\ calls[s].pc = "send"
    /\ calls[s].kind = "sales"
    /\ Release(s)
    /\ IF ok
       THEN LET cleanPhone == calls[s].userPhone
                existing == MapHas(conversations, cleanPhone)
                id == IF existing THEN conversations[cleanPhone]
                      ELSE NewId(heap)
                hp == IF existing THEN heap
                      ELSE MapSet(heap, id, [stage |-> STAGES.INITIAL,
                                             data |-> <<>>])
            IN  /\ messageHistory' = storeMessage(messageHistory, cleanPhone,
                                                  "sales", calls[s].reply)
                /\ handoffMode' = setHandoffMode(handoffMode, cleanPhone, TRUE)
                /\ conversations' = MapSet(conversations, cleanPhone, id)
                /\ heap' = Collect(SetStage(hp, id, STAGES.HANDOFF),
                                   conversations', calls')
                /\ UNCHANGED failures
       ELSE /\ Fail
            /\ UNCHANGED <<conversations, heap, messageHistory, handoffMode>>
    /\ UNCHANGED <<sfConnection, env, phase, timers>>

\* HistoryResponse gone wrong: the History is looked up under the raw number
HistoryResponse_RawKey(hist, phoneNumber) ==
    LET cleanPhone == StripNonDigits(phoneNumber)
        history == IF MapHas(hist, phoneNumber) THEN hist[phoneNumber] ELSE <<>>
    IN  [success |-> TRUE, phoneNumber |-> cleanPhone,
         messageCount |-> Len(history), messages |-> history]

\* the body of the answer of GET /api/conversation-history/:phoneNumber
HistoryResponse(hist, phoneNumber) ==
    LET cleanPhone == StripNonDigits(phoneNumber)
        history == IF MapHas(hist, cleanPhone) THEN hist[cleanPhone] ELSE <<>>
    IN  [success |-> TRUE, phoneNumber |-> cleanPhone,
         messageCount |-> Len(history), messages |-> history]

\* GET /api/conversation-history/:phoneNumber: it reads, and answers
GetHistory(phoneNumber) ==
    /\ phoneNumber # Undefined
    /\ HistoryResponse(messageHistory, phoneNumber).success
    /\ UNCHANGED vars

\* the body of the answer of GET /health (but for its timestamp)
HealthResponse(convs, hist, hm, sf) ==
    [status |-> "running",
     salesforce |-> IF sf THEN "connected" ELSE "disconnected",
     activeConversations |-> Cardinality(DOMAIN convs),
     storedHistories |-> Cardinality(DOMAIN hist),
     handoffSessions |-> Cardinality(DOMAIN hm)]

\* GET /health: it reads, and answers
Health ==
    /\ HealthResponse(conversations, messageHistory, handoffMode,
                      sfConnection).status = "running"
    /\ UNCHANGED vars

\* POST /api/resume-bot
ResumeBot(phoneNumber) ==
    /\ IF phoneNumber = Undefined
       THEN UNCHANGED <<conversations, heap, handoffMode>>
       ELSE LET cleanPhone == StripNonDigits(phoneNumber)
                existing == MapHas(conversations, cleanPhone)
                id == IF existing THEN conversations[cleanPhone]
                      ELSE NewId(heap)
                hp == IF existing THEN heap
                      ELSE MapSet(heap, id, [stage |-> STAGES.COMPLETED,
                                             data |-> <<>>])
            IN  /\ handoffMode' = setHandoffMode(handoffMode, cleanPhone, FALSE)
                /\ conversations' = MapSet(conversations, cleanPhone, id)
                /\ heap' = Collect(SetStage(hp, id, STAGES.COMPLETED),
                                   conversations', calls)
    /\ UNCHANGED <<messageHistory, sfConnection, calls, failures, env, phase, timers>>

\* ------------------------------------------- the legacy build (part_000)
\* The earlier build of the server: the History is keyed by the phone number
\* as given, there is no handoff, and a created lead schedules the clearing
\* of its Conversation. Its switch is that of handleConversation above
\* without the case HANDOFF, a stage that no route of this build sets.

\* storeMessage of the legacy build: the key is phoneNumber as it is
LegacyStoreMessage(hist, phoneNumber, sender, message) ==
    LET arr == IF MapHas(hist, phoneNumber) THEN hist[phoneNumber] ELSE <<>>
    IN  MapSet(hist, phoneNumber,
               Append(arr, [sender |-> sender, message |-> message,
                            timestamp |-> Now(hist)]))

\* setTimeout(() => conversations.delete(userPhone), 60000)
SetTimeout(tm, userPhone) ==
    MapSet(tm, userPhone, IF MapHas(tm, userPhone) THEN tm[userPhone] + 1 ELSE 1)

\* POST /webhook: storeMessage and handleConversation up to its first await;
\* a message without `from` is handled under the key undefined
LegacyWebhook(from, body) ==
    /\ Admit
    /\ LET messageText == IF body = Undefined THEN <<>> ELSE Trim(body)
           r == HandleConversation(conversations, heap, sfConnection,
                                   from, messageText)
       IN  /\ messageHistory' = LegacyStoreMessage(messageHistory, from,
                                                   "customer", messageText)
           /\ conversations' = r.conversations
           /\ Suspend([pc |-> r.pc, kind |-> "inbound", userPhone |-> from,
                       reply |-> r.reply, conv |-> r.conv, lead |-> r.lead])
           /\ heap' = Collect(r.heap, conversations', calls')
    /\ UNCHANGED <<handoffMode, sfConnection, failures, env, phase, timers>>

\* handleConversation after createLeadInSalesforce returned leadId: as in
\* the later build, and the timer is set when there is a leadId
LegacyAfterCreateLead(s, leadId) ==
    /\ AfterCreateLead(s, leadId)
    /\ timers' = IF leadId # Null THEN SetTimeout(timers, calls[s].userPhone)
                 ELSE timers

LegacyConnectDone(s, ok) ==
    /\ calls[s].pc = "connect"
    /\ IF ok THEN UNCHANGED failures ELSE Fail
    /\ sfConnection' = (sfConnection \/ ok)
    /\ IF sfConnection'
       THEN /\ calls' = [calls EXCEPT ![s] =
                           [@ EXCEPT !.pc = "create",
                                     !.lead =
                                        LeadRecord(heap[calls[s].conv].data)]]
            /\ UNCHANGED <<conversations, heap, timers>>
       ELSE LegacyAfterCreateLead(s, Null)
    /\ UNCHANGED <<messageHistory, handoffMode, env, phase>>

LegacyCreateDone(s, outcome) ==
    /\ calls[s].pc = "create"
    /\ IF outcome.success /\ ~outcome.throws THEN UNCHANGED failures ELSE Fail
    /\ LegacyAfterCreateLead(s, LeadIdOf(outcome))
    /\ UNCHANGED <<messageHistory, handoffMode, sfConnection, env, phase>>

\* the send of the bot's reply is over: storeMessage, or the catch block
LegacySendDone(s, ok) ==
    /\ calls[s].pc = "send"
    /\ calls[s].kind = "inbound"
    /\ IF ok
       THEN /\ messageHistory' =
                  LegacyStoreMessage(messageHistory, calls[s].userPhone,
                                     "bot", calls[s].reply)
            /\ Release(s)
            /\ UNCHANGED failures
       ELSE /\ Fail
            /\ calls' = [calls EXCEPT ![s] = [@ EXCEPT !.pc = "sorry",
                                                       !.reply = SomethingWrong]]
            /\ UNCHANGED messageHistory
    /\ heap' = Collect(heap, conversations, calls')
    /\ UNCHANGED <<conversations, handoffMode, sfConnection, env, phase, timers>>

\* POST /api/send-message after the send: the sales record, nothing else
LegacyAgentSendDone(s, ok) ==
    /\ calls[s].pc = "send"
    /\ calls[s].kind = "sales"
    /\ Release(s)
    /\ IF ok
       THEN /\ messageHistory' =
                  LegacyStoreMessage(messageHistory, calls[s].userPhone,
                                     "sales", calls[s].reply)
            /\ UNCHANGED failures
       ELSE /\ Fail
            /\ UNCHANGED messageHistory
    /\ UNCHANGED <<conversations, heap, handoffMode, sfConnection, env, phase,
                   timers>>

\* the 60 seconds of a timer are over: its callback runs
TimerFired(userPhone) ==
    /\ MapHas(timers, userPhone)
    /\ timers[userPhone] > 0
    /\ timers' = [timers EXCEPT ![userPhone] = @ - 1]
    /\ conversations' = MapDelete(conversations, userPhone)
    /\ heap' = Collect(heap, conversations', calls)
    /\ UNCHANGED <<messageHistory, handoffMode, sfConnection, calls, failures,
                   env, phase>>

\* ------------------------------------------------------------ specification
\* The warm-up: one sender goes through the opening of the dialogue, each
\* delivery handled to its end (the lead created, the reply sent and stored)
\* before the next is delivered.
WarmUp ==
    /\ env.build = "server"
    /\ phase.name = "warmup"
    /\ \/ /\ \A s \in Slots : calls[s].pc = "idle"
          /\ \E body \in env.warmBodies : Webhook(env.warmPhone, body)
       \/ \E s \in Slots : ConnectDone(s, TRUE)
       \/ \E s \in Slots, outcome \in CreateOutcomes :
              outcome.success /\ ~outcome.throws /\ CreateDone(s, outcome)
       \/ \E s \in Slots : SendDone(s, TRUE)

\* From now on events arrive in any order, until MaxRecords more are stored.
Open ==
    /\ env.build = "server"
    /\ phase.name = "warmup"
    /\ \A s \in Slots : calls[s].pc = "idle"
    /\ phase' = [name |-> "open",
                 limit |-> TotalRecords(messageHistory) + env.maxRecords]
    /\ UNCHANGED <<conversations, heap, messageHistory, handoffMode,
                   sfConnection, calls, failures, env, timers>>

\* the login started by app.listen has ended, with either outcome
InitWith(e) ==
    /\ conversations = <<>>
    /\ heap = <<>>
    /\ messageHistory = <<>>
    /\ handoffMode = <<>>
    /\ sfConnection \in BOOLEAN
    /\ calls = [s \in Slots |-> Idle]
    /\ failures = 0
    /\ timers = <<>>
    /\ env = e
    /\ phase = [name |-> "warmup", limit |-> 2 * e.maxWarm - 1]

Opened == env.build = "server" /\ phase.name = "open"

Next ==
    \/ WarmUp
    \/ Open
    \/ Opened /\ \E from \in env.phones, body \in env.bodies :
                     Webhook(from, body)
    \/ Opened /\ \E body \in env.bodies : WebhookNoSender(Undefined, body)
    \/ Opened /\ \E s \in Slots, ok \in BOOLEAN : ConnectDone(s, ok)
    \/ Opened /\ \E s \in Slots, outcome \in CreateOutcomes :
                     CreateDone(s, outcome)
    \/ Opened /\ \E s \in Slots, ok \in BOOLEAN : SendDone(s, ok)
    \/ Opened /\ \E s \in Slots : SorryDone(s)
    \/ Opened /\ \E phoneNumber \in env.apiPhones, message \in env.agentTexts :
                     SendMessageApi(phoneNumber, message)
    \/ Opened /\ \E s \in Slots, ok \in BOOLEAN : AgentSendDone(s, ok)
    \/ Opened /\ \E phoneNumber \in env.apiPhones : ResumeBot(phoneNumber)
    \/ Opened /\ \E phoneNumber \in env.apiPhones : GetHistory(phoneNumber)
    \/ Opened /\ Health

\* One sender writing in its canonical form; any interleaving once open.
Init ==
    InitWith([build |-> "server", phones |-> {PlainPhone, PlusPhone},
              bodies |-> {TEmail, TRestart, Undefined},
              apiPhones |-> {PlainPhone, PlusPhone, Undefined},
              agentTexts |-> {TName, <<>>},
              warmPhone |-> PlainPhone, warmBodies |-> {TEmail},
              maxWarm |-> MaxWarm, maxRecords |-> MaxRecords,
              maxInFlight |-> MaxInFlight, maxFailures |-> MaxFailures])

Spec == Init /\ [][Next]_vars

\* One sender whose scripted dialogue takes any of three texts at every step
\* and runs up to the created lead; little happens once open.
InitHappy ==
    InitWith([build |-> "server", phones |-> {PlainPhone}, bodies |-> {TEmail},
              apiPhones |-> {PlusPhone}, agentTexts |-> {TName},
              warmPhone |-> PlainPhone,
              warmBodies |-> {TName, TEmail, TRestart},
              maxWarm |-> HappyWarm, maxRecords |-> HappyRecords,
              maxInFlight |-> MaxInFlight, maxFailures |-> MaxFailures])

SpecHappy == InitHappy /\ [][Next]_vars

\* One sender whose scripted dialogue takes, at every step, a text with
\* neither, one or both of '@' and '.'; little happens once open.
InitEmail ==
    InitWith([build |-> "server", phones |-> {PlainPhone}, bodies |-> {TEmail},
              apiPhones |-> {PlusPhone}, agentTexts |-> {TName},
              warmPhone |-> PlainPhone,
              warmBodies |-> {TName, TEmail, TAt, TDot},
              maxWarm |-> EmailWarm, maxRecords |-> EmailRecords,
              maxInFlight |-> MaxInFlight, maxFailures |-> MaxFailures])

SpecEmail == InitEmail /\ [][Next]_vars

\* The legacy build's warm-up: as WarmUp; no timer fires before it is over.
LegacyWarmUp ==
    /\ env.build = "legacy"
    /\ phase.name = "warmup"
    /\ \/ /\ \A s \in Slots : calls[s].pc = "idle"
          /\ \E body \in env.warmBodies : LegacyWebhook(env.warmPhone, body)
       \/ \E s \in Slots : LegacyConnectDone(s, TRUE)
       \/ \E s \in Slots, outcome \in CreateOutcomes :
              outcome.success /\ ~outcome.throws /\ LegacyCreateDone(s, outcome)
       \/ \E s \in Slots : LegacySendDone(s, TRUE)

LegacyOpen ==
    /\ env.build = "legacy"
    /\ phase.name = "warmup"
    /\ \A s \in Slots : calls[s].pc = "idle"
    /\ phase' = [name |-> "open",
                 limit |-> TotalRecords(messageHistory) + env.maxRecords]
    /\ UNCHANGED <<conversations, heap, messageHistory, handoffMode,
                   sfConnection, calls, failures, env, timers>>

LegacyOpened == env.build = "legacy" /\ phase.name = "open"

NextLegacy ==
    \/ LegacyWarmUp
    \/ LegacyOpen
    \/ LegacyOpened /\ \E from \in env.phones, body \in env.bodies :
                           LegacyWebhook(from, body)
    \/ LegacyOpened /\ \E s \in Slots, ok \in BOOLEAN : LegacyConnectDone(s, ok)
    \/ LegacyOpened /\ \E s \in Slots, outcome \in CreateOutcomes :
                           LegacyCreateDone(s, outcome)
    \/ LegacyOpened /\ \E s \in Slots, ok \in BOOLEAN : LegacySendDone(s, ok)
    \/ LegacyOpened /\ \E s \in Slots : SorryDone(s)
    \/ LegacyOpened /\ \E phoneNumber \in env.apiPhones,
                          message \in env.agentTexts :
                           SendMessageApi(phoneNumber, message)
    \/ LegacyOpened /\ \E s \in Slots, ok \in BOOLEAN : LegacyAgentSendDone(s, ok)
    \/ LegacyOpened /\ \E userPhone \in env.phones : TimerFired(userPhone)
    \/ LegacyOpened /\ \E phoneNumber \in env.apiPhones :
                           GetHistory(phoneNumber)

\* The legacy build opens either at ASKED_REQUIREMENT or with a lead just
\* created and its timer pending.
InitLegacy ==
    \E w \in {MaxWarm, MaxWarm + 1} :
       InitWith([build |-> "legacy", phones |-> {PlainPhone, Undefined},
                 bodies |-> {TEmail, TRestart, Undefined},
                 apiPhones |-> {PlusPhone, Undefined},
                 agentTexts |-> {TName, <<>>},
                 warmPhone |-> PlainPhone, warmBodies |-> {TEmail},
                 maxWarm |-> w, maxRecords |-> MaxRecords,
                 maxInFlight |-> MaxInFlight, maxFailures |-> MaxFailures])

SpecLegacy == InitLegacy /\ [][NextLegacy]_vars

\* Both builds, each from its own start.
InitBuilds == Init \/ InitLegacy
NextBuilds == Next \/ NextLegacy
SpecBuilds == InitBuilds /\ [][NextBuilds]_vars

\* ------------------------------------------------------------------ views
\* the sender identities: the canonical (digits only) forms
CleanPhones == {StripNonDigits(p) : p \in Phones}
AllKeys == Phones \cup CleanPhones

NoStage == "NONE"
\* the stage and the data of the Conversation stored under a key
StageAt(convs, hp, key) ==
    IF MapHas(convs, key) THEN hp[convs[key]].stage ELSE NoStage
DataAt(convs, hp, key) ==
    IF MapHas(convs, key) THEN hp[convs[key]].data ELSE <<>>
HistoryOf(hist, key) == IF MapHas(hist, key) THEN hist[key] ELSE <<>>
BotRecords(hist, key) ==
    SelectSeq(HistoryOf(hist, key), LAMBDA r : r.sender = "bot")

\* slot s holds a suspended handleInbound of sender identity k
InboundCall(s, k) ==
    /\ calls[s].pc # "idle"
    /\ calls[s].kind = "inbound"
    /\ StripNonDigits(calls[s].userPhone) = k

\* this step is a step of handleInbound for sender identity k
InboundStep(k) ==
    \/ \E from \in env.phones, body \in env.bodies :
          StripNonDigits(from) = k /\ Webhook(from, body)
    \/ \E s \in Slots :
          /\ InboundCall(s, k)
          /\ \/ \E ok \in BOOLEAN : ConnectDone(s, ok)
             \/ \E outcome \in CreateOutcomes : CreateDone(s, outcome)
             \/ \E ok \in BOOLEAN : SendDone(s, ok)
             \/ SorryDone(s)

\* this step calls sendWhatsAppMessage for a handleInbound of k
BotSends(k) ==
    \E s \in Slots :
       /\ calls'[s] # calls[s]
       /\ calls'[s].pc \in {"send", "sorry"}
       /\ calls'[s].kind = "inbound"
       /\ StripNonDigits(calls'[s].userPhone) = k

\* ------------------------------------------------------------------ claims

\* C1: once the Handoff flag is true for a sender, no step of handleInbound
\* for that sender changes a Conversation stage of the sender, sends a bot
\* reply or appends a bot record to its History, until resumeBot.
C1_HandoffExclusivity ==
    [][\A k \in CleanPhones :
          isHandoffMode(handoffMode, k) /\ InboundStep(k) =>
             /\ \A key \in AllKeys :
                   StripNonDigits(key) = k =>
                      StageAt(conversations', heap', key)
                        = StageAt(conversations, heap, key)
             /\ ~BotSends(k)
             /\ BotRecords(messageHistory', k) = BotRecords(messageHistory, k)]_vars

\* C2: two inbound messages of one sender at ASKED_REQUIREMENT are handled
\* one after the other: never are two handlers of the same sender both
\* inside createLeadInSalesforce.
C2_SerializedLeadCreation ==
    \A s, t \in Slots :
       /\ s # t
       /\ calls[s].kind = "inbound" /\ calls[t].kind = "inbound"
       /\ calls[s].pc \in {"connect", "create"}
       /\ calls[t].pc \in {"connect", "create"}
       => calls[s].userPhone # calls[t].userPhone

\* C3: the History of a sender only grows, and every record in it keeps its
\* position, sender role, text and timestamp, whatever the operation, in
\* either build (the timed clear is the legacy build's).
C3_HistoryAppendOnly ==
    [][\A k \in DOMAIN messageHistory :
          /\ k \in DOMAIN messageHistory'
          /\ Len(messageHistory'[k]) >= Len(messageHistory[k])
          /\ SubSeq(messageHistory'[k], 1, Len(messageHistory[k]))
               = messageHistory[k]]_vars

\* a History holding a customer, a bot and a sales record, after a resume
C3_Witness ==
    \E k \in DOMAIN messageHistory :
       /\ \A role \in {"customer", "bot", "sales"} :
             \E i \in 1..Len(messageHistory[k]) :
                messageHistory[k][i].sender = role
       /\ MapHas(handoffMode, k) /\ handoffMode[k] = FALSE

\* C4: the bot record of a decided reply is in the sender's History even
\* when the send of that reply fails.
C4_BotRecordDespiteSendFailure ==
    [][\A s \in Slots :
          calls[s].kind = "inbound" /\ SendDone(s, FALSE) =>
             \E i \in 1..Len(HistoryOf(messageHistory',
                                       StripNonDigits(calls[s].userPhone))) :
                LET r == messageHistory'[StripNonDigits(calls[s].userPhone)][i]
                IN  r.sender = "bot" /\ r.message = calls[s].reply]_vars

\* C5: when the send of the bot's reply fails, the stage and the data the
\* transition committed stay in the Conversation Store as they are.
C5_NoRollbackOnSendFailure ==
    [][\A s \in Slots :
          calls[s].kind = "inbound" /\ (SendDone(s, FALSE) \/ SorryDone(s)) =>
             /\ conversations' = conversations
             /\ \A key \in DOMAIN conversations :
                   heap'[conversations'[key]] = heap[conversations[key]]]_vars

\* the send of the thank-you failed, and the Conversation is still COMPLETED
C5_Witness ==
    \E s \in Slots :
       /\ calls[s].pc = "sorry"
       /\ MapHas(conversations, calls[s].userPhone)
       /\ conversations[calls[s].userPhone] = calls[s].conv
       /\ heap[calls[s].conv].stage = STAGES.COMPLETED
       /\ "requirement" \in DOMAIN heap[calls[s].conv].data

\* createLeadInSalesforce of the handler in slot s returns null in this step
CreateLeadFails(s) ==
    \/ \E outcome \in CreateOutcomes :
          LeadIdOf(outcome) = Null /\ CreateDone(s, outcome)
    \/ ConnectDone(s, FALSE) /\ ~sfConnection

\* createLeadInSalesforce of the handler in slot s returns an id in this step
CreateLeadSucceeds(s) ==
    \E outcome \in CreateOutcomes :
       LeadIdOf(outcome) # Null /\ CreateDone(s, outcome)

\* the handler in slot s is inside createLeadInSalesforce, and the sender's
\* stored Conversation is the one it works on, at ASKED_REQUIREMENT
AtRequirement(s) ==
    /\ calls[s].kind = "inbound"
    /\ calls[s].pc \in {"connect", "create"}
    /\ MapHas(conversations, calls[s].userPhone)
    /\ conversations[calls[s].userPhone] = calls[s].conv
    /\ heap[calls[s].conv].stage = STAGES.ASKED_REQUIREMENT

\* C6: when createLead fails for a sender at ASKED_REQUIREMENT the stage stays
\* ASKED_REQUIREMENT and the reply is the failure message; an inbound text
\* at ASKED_REQUIREMENT invokes createLead (again); the handler makes the
\* stage COMPLETED exactly when createLead returned an id.
C6_CrmFailureRetryable ==
    [][/\ \A s \in Slots :
             AtRequirement(s) /\ CreateLeadFails(s) =>
                /\ StageAt(conversations', heap', calls[s].userPhone)
                     = STAGES.ASKED_REQUIREMENT
                /\ calls'[s].pc = "send" /\ calls'[s].reply = LeadFailed
       /\ \A from \in env.phones, body \in env.bodies :
             /\ ~isHandoffMode(handoffMode, from)
             /\ StageAt(conversations, heap, from) = STAGES.ASKED_REQUIREMENT
             /\ Webhook(from, body)
             => \E s \in Slots :
                   /\ calls[s].pc = "idle"
                   /\ calls'[s].pc \in {"connect", "create"}
                   /\ calls'[s].userPhone = from
       /\ \A s \in Slots :
             AtRequirement(s) /\ calls'[s] # calls[s] =>
                (StageAt(conversations', heap', calls[s].userPhone)
                   = STAGES.COMPLETED  <=>  CreateLeadSucceeds(s))]_vars

\* createLead failed, the failure reply is in the History, and the next
\* inbound text of the sender is inside createLeadInSalesforce again
C6_Witness ==
    \E s \in Slots :
       /\ AtRequirement(s)
       /\ \E i \in 1..Len(HistoryOf(messageHistory,
                                   StripNonDigits(calls[s].userPhone))) :
             messageHistory[StripNonDigits(calls[s].userPhone)][i].message
               = LeadFailed

\* C7: every key of the three stores is a canonical (digits only) sender
\* identity, so that all raw forms of a number share one entry.
C7_SingleIdentity ==
    \A k \in DOMAIN conversations \cup DOMAIN messageHistory
               \cup DOMAIN handoffMode :
       StripNonDigits(k) = k

\* C8: an inbound event with no text or with no sender changes no store and
\* starts no reply.
C8_MalformedDropped ==
    [][\A from \in env.phones \cup {Undefined}, body \in env.bodies :
          /\ from = Undefined \/ body = Undefined
          /\ Webhook(from, body) \/ WebhookNoSender(from, body)
          => UNCHANGED <<conversations, heap, messageHistory, handoffMode,
                         calls>>]_vars

\* C9: resumeBot leaves the sender's Handoff flag false and its stage
\* COMPLETED; a following inbound "restart" or "start" of that sender leaves
\* it at ASKED_FIRST_NAME with empty data, the greeting being sent.
C9_ResumeThenRestart ==
    [][/\ \A p \in env.apiPhones \ {Undefined} :
             ResumeBot(p) =>
                /\ ~isHandoffMode(handoffMode', p)
                /\ StageAt(conversations', heap', StripNonDigits(p))
                     = STAGES.COMPLETED
       /\ \A from \in env.phones, body \in env.bodies \ {Undefined} :
             /\ ~isHandoffMode(handoffMode, from)
             /\ StageAt(conversations, heap, StripNonDigits(from))
                  = STAGES.COMPLETED
             /\ IsRestart(Trim(body))
             /\ Webhook(from, body)
             => /\ StageAt(conversations', heap', from)
                     = STAGES.ASKED_FIRST_NAME
                /\ DataAt(conversations', heap', from) = <<>>
                /\ \E s \in Slots :
                      /\ calls[s].pc = "idle"
                      /\ calls'[s].pc = "send"
                      /\ calls'[s].userPhone = from
                      /\ calls'[s].reply = Greeting]_vars

\* The scripted dialogue so far: the History of the warm-up's sender while
\* the warm-up lasts, and the text of its n-th inbound message.
WarmHistory == HistoryOf(messageHistory, StripNonDigits(env.warmPhone))
WarmText(n) == WarmHistory[2 * n - 1].message
ValidEmail(t) == Includes(t, "@") /\ Includes(t, ".")

\* the handler in slot s is inside createLeadInSalesforce with these fields:
\* the data it passed and, once built, the record given to create
CreatesLead(s, first, last, email, phone, requirement, number) ==
    /\ calls[s].kind = "inbound"
    /\ calls[s].pc \in {"connect", "create"}
    /\ heap[calls[s].conv].data
         = [firstName |-> first, lastName |-> last, email |-> email,
            phone |-> phone, requirement |-> requirement,
            whatsappNumber |-> number]
    /\ calls[s].pc = "create" =>
          calls[s].lead
            = [FirstName |-> first, LastName |-> last,
               Company |-> first \o <<" ">> \o last,
               Email |-> email, Phone |-> phone, Description |-> requirement,
               WhatsApp_Number__c |-> number,
               WhatsApp_Message__c |-> requirement,
               WhatsApp_Conversation_ID__c |-> number]

\* C10 as stated: from INITIAL, five consecutive texts t1..t5 (t3 a valid
\* email) leave the fifth handleInbound inside createLead with firstName=t1,
\* lastName=t2, company=t1+" "+t2, email=t3, phone=t4, requirement=t5,
\* whatsappNumber=senderId.
C10_HappyPathFromInitial ==
    /\ phase.name = "warmup"
    /\ Len(WarmHistory) = 9
    /\ ValidEmail(WarmText(3))
    => \E s \in Slots :
          CreatesLead(s, WarmText(1), WarmText(2), WarmText(3), WarmText(4),
                      WarmText(5), env.warmPhone)

\* the sixth text of the dialogue has been delivered, the fourth being a
\* valid email, and its handler has not yet its answer from createLead
HappyPending ==
    /\ phase.name = "warmup"
    /\ Len(WarmHistory) = 11
    /\ ValidEmail(WarmText(4))
    /\ \A s \in Slots : calls[s].pc # "send"

\* C10, amended: the first inbound text at INITIAL is only answered by the
\* greeting; the five texts t1..t5 after it (t3 a valid email) leave the
\* fifth handleInbound inside createLead with firstName=t1, lastName=t2,
\* company=t1+" "+t2, email=t3, phone=t4, requirement=t5 and
\* whatsappNumber=senderId, and when createLead returns an id the stage is
\* COMPLETED and the reply holds that id.
C10_HappyPathAfterGreeting ==
    [][/\ HappyPending' =>
             \E s \in Slots :
                CreatesLead(s, WarmText(2), WarmText(3), WarmText(4),
                            WarmText(5), WarmText(6), env.warmPhone)'
       /\ \A s \in Slots, outcome \in CreateOutcomes :
             /\ HappyPending
             /\ LeadIdOf(outcome) # Null
             /\ CreateDone(s, outcome)
             => /\ StageAt(conversations', heap', env.warmPhone)
                     = STAGES.COMPLETED
                /\ calls'[s].pc = "send"
                /\ calls'[s].reply = ThankYou(WarmText(2), outcome.id)]_vars

\* the dialogue ran to its end: the lead was created, the thank-you with its
\* id was sent and stored, and the five texts were not all the same
C10_Witness ==
    /\ Len(WarmHistory) = 12
    /\ WarmHistory[12].message.tpl = "thankYou"
    /\ WarmHistory[12].message.ref \in LeadIds
    /\ WarmText(2) # WarmText(3)
    /\ WarmText(5) # WarmText(4)
    /\ StageAt(conversations, heap, env.warmPhone) = STAGES.COMPLETED

\* the text has the character (spelled out, apart from Includes)
Contains(t, c) == \E i \in 1..Len(t) : t[i] = c

\* the text handleConversation is given for a message body
TextOf(body) == IF body = Undefined THEN <<>> ELSE Trim(body)

\* record i of the scripted dialogue is the customer's text t
WarmCustomer(i, t) ==
    WarmHistory[i].sender = "customer" /\ WarmHistory[i].message = t
\* record i of the scripted dialogue is the bot's reply r
WarmBot(i, r) ==
    WarmHistory[i].sender = "bot" /\ WarmHistory[i].message = r

\* this step delivers body from a sender whose Conversation is at
\* ASKED_EMAIL, and the bot handles it
EmailStep(from, body) ==
    /\ ~isHandoffMode(handoffMode, from)
    /\ StageAt(conversations, heap, from) = STAGES.ASKED_EMAIL
    /\ Webhook(from, body)

\* this step has started the send of reply to the sender
Replies(from, reply) ==
    \E s \in Slots :
       /\ calls[s].pc = "idle"
       /\ calls'[s].pc = "send"
       /\ calls'[s].userPhone = from
       /\ calls'[s].reply = reply

\* this step stores text as email and advances to ASKED_PHONE
EmailAccepted(from, text) ==
    /\ StageAt(conversations', heap', from) = STAGES.ASKED_PHONE
    /\ DataAt(conversations', heap', from)
         = MapSet(DataAt(conversations, heap, from), "email", text)
    /\ Replies(from, AskPhone)

\* this step leaves the stage and the data, and answers the validation error
EmailRefused(from) ==
    /\ StageAt(conversations', heap', from) = STAGES.ASKED_EMAIL
    /\ DataAt(conversations', heap', from) = DataAt(conversations, heap, from)
    /\ "email" \notin DOMAIN DataAt(conversations', heap', from)
    /\ Replies(from, InvalidEmail)

\* C11: at ASKED_EMAIL a text with '@' and with '.' is stored as email and
\* the stage becomes ASKED_PHONE; any other text leaves the stage at
\* ASKED_EMAIL, stores no email and is answered by the validation error.
C11_EmailCheck ==
    [][\A from \in env.phones \cup {env.warmPhone},
          body \in env.bodies \cup env.warmBodies :
          EmailStep(from, body) =>
             IF Contains(TextOf(body), "@") /\ Contains(TextOf(body), ".")
             THEN EmailAccepted(from, TextOf(body))
             ELSE EmailRefused(from)]_vars

\* a text with '@' alone was refused, and a text with both was stored
C11_Witness ==
    \E i \in 1..Len(WarmHistory) :
       /\ i + 3 <= Len(WarmHistory)
       /\ WarmCustomer(i, TAt)
       /\ WarmBot(i + 1, InvalidEmail)
       /\ WarmCustomer(i + 2, TEmail)
       /\ WarmBot(i + 3, AskPhone)
       /\ Get(DataAt(conversations, heap, env.warmPhone), "email") = TEmail

\* C18 as stated: at ASKED_EMAIL a text is refused exactly when it lacks
\* both '@' and '.'; any other text, one with only one of the two too, is
\* stored as email and the stage becomes ASKED_PHONE.
C18_RejectedWhenLacksBoth ==
    [][\A from \in env.phones \cup {env.warmPhone},
          body \in env.bodies \cup env.warmBodies :
          EmailStep(from, body) =>
             /\ EmailRefused(from) <=>
                   (~Contains(TextOf(body), "@") /\ ~Contains(TextOf(body), "."))
             /\ EmailAccepted(from, TextOf(body)) <=>
                   (Contains(TextOf(body), "@") \/ Contains(TextOf(body), "."))]_vars

\* C18, amended: at ASKED_EMAIL a text is refused (stage unchanged,
\* validation error) exactly when it lacks '@' or lacks '.', a text with
\* only one of the two too; a text with both is stored as email and the
\* stage becomes ASKED_PHONE.
C18_RejectedWhenLacksEither ==
    [][\A from \in env.phones \cup {env.warmPhone},
          body \in env.bodies \cup env.warmBodies :
          EmailStep(from, body) =>
             /\ EmailRefused(from) <=>
                   (~Contains(TextOf(body), "@") \/ ~Contains(TextOf(body), "."))
             /\ EmailAccepted(from, TextOf(body)) <=>
                   ~(~Contains(TextOf(body), "@") \/ ~Contains(TextOf(body), "."))]_vars

\* a text with '.' alone and a text with '@' alone were both refused
C18_Witness ==
    \E i, j \in 1..Len(WarmHistory) :
       /\ i + 1 <= Len(WarmHistory) /\ j + 1 <= Len(WarmHistory)
       /\ WarmCustomer(i, TDot)
       /\ WarmBot(i + 1, InvalidEmail)
       /\ WarmCustomer(j, TAt)
       /\ WarmBot(j + 1, InvalidEmail)

\* the place of a stage in the order of the dialogue; no Conversation yet
\* counts as INITIAL
Rank(stage) ==
    CASE stage = NoStage -> 0
      [] stage = STAGES.INITIAL -> 0
      [] stage = STAGES.ASKED_FIRST_NAME -> 1
      [] stage = STAGES.ASKED_LAST_NAME -> 2
      [] stage = STAGES.ASKED_EMAIL -> 3
      [] stage = STAGES.ASKED_PHONE -> 4
      [] stage = STAGES.ASKED_REQUIREMENT -> 5
      [] stage = STAGES.COMPLETED -> 6
      [] stage = STAGES.HANDOFF -> 7

\* this step is a step of a handleConversation(key, ...): its start in the
\* webhook, or its continuation after an await
HandlerStep(key) ==
    \/ \E body \in env.bodies \cup env.warmBodies : Webhook(key, body)
    \/ \E s \in Slots :
          /\ calls[s].kind = "inbound"
          /\ calls[s].userPhone = key
          /\ \/ \E ok \in BOOLEAN : ConnectDone(s, ok)
             \/ \E outcome \in CreateOutcomes : CreateDone(s, outcome)
             \/ \E ok \in BOOLEAN : SendDone(s, ok)
             \/ SorryDone(s)

\* C12: no step of handleInbound leaves the stage of its sender lower than
\* it was, except the restart, which goes from COMPLETED to ASKED_FIRST_NAME
\* with empty data.
C12_StageMonotone ==
    [][\A key \in env.phones \cup {env.warmPhone} :
          HandlerStep(key) =>
             \/ Rank(StageAt(conversations', heap', key))
                  >= Rank(StageAt(conversations, heap, key))
             \/ /\ StageAt(conversations, heap, key) = STAGES.COMPLETED
                /\ StageAt(conversations', heap', key) = STAGES.ASKED_FIRST_NAME
                /\ DataAt(conversations', heap', key) = <<>>]_vars

\* the keys under which a Conversation of sender identity k is looked up:
\* k itself, and every raw form of k that has an entry
KeysOf(k) ==
    {k} \cup {key \in DOMAIN conversations : StripNonDigits(key) = k}

\* the send of the agent's text in slot s succeeds in this step
AgentOverrideDone(s) ==
    /\ calls[s].kind = "sales"
    /\ AgentSendDone(s, TRUE)

\* this step appends one record of the sales agent with the text of slot s
\* to the History of k, and nothing else
AppendsSalesRecord(s, k) ==
    LET before == HistoryOf(messageHistory, k)
        after == HistoryOf(messageHistory', k)
    IN  /\ Len(after) = Len(before) + 1
        /\ SubSeq(after, 1, Len(before)) = before
        /\ after[Len(after)].sender = "sales"
        /\ after[Len(after)].message = calls[s].reply

\* C13: a handleAgentOverride whose send succeeds appends exactly one sales
\* record with the given text, sets the Handoff flag, and leaves the
\* sender's Conversation at HANDOFF with the data it had.
C13_AgentOverrideEffect ==
    [][\A s \in Slots :
          AgentOverrideDone(s) =>
             /\ AppendsSalesRecord(s, calls[s].userPhone)
             /\ isHandoffMode(handoffMode', calls[s].userPhone)
             /\ \A key \in KeysOf(calls[s].userPhone) :
                   /\ StageAt(conversations', heap', key) = STAGES.HANDOFF
                   /\ DataAt(conversations', heap', key)
                        = DataAt(conversations, heap, key)]_vars

\* the last record of a History, or none
LastSender(h) == IF Len(h) = 0 THEN "none" ELSE h[Len(h)].sender

\* C14: the records of an operation are not separated in the History by a
\* record of an operation admitted later; so when handleInbound appends its
\* bot reply, the record it follows is a customer record (were it a bot or
\* a sales record, that record's operation or this one would be cut in two
\* or overtaken).
C14_HistoryInAdmissionOrder ==
    [][\A s \in Slots :
          calls[s].kind = "inbound" /\ SendDone(s, TRUE) =>
             LastSender(HistoryOf(messageHistory,
                                  StripNonDigits(calls[s].userPhone)))
               = "customer"]_vars

\* the Conversation under key is part-way through the dialogue: since the
\* lead that set a timer left it COMPLETED, the sender has written again
MidDialogue(key) ==
    Rank(StageAt(conversations, heap, key)) \in 1..5

\* C15: a timer set when a lead was created does not delete or reset the
\* Conversation of a sender who has written since: a Conversation that is
\* part-way through the dialogue when the timer fires keeps its stage and
\* its data.
C15_TimedClearCancelled ==
    [][\A key \in env.phones :
          MidDialogue(key) /\ TimerFired(key) =>
             /\ MapHas(conversations', key)
             /\ StageAt(conversations', heap', key)
                  = StageAt(conversations, heap, key)
             /\ DataAt(conversations', heap', key)
                  = DataAt(conversations, heap, key)]_vars

\* this step is the explicit restart of the Conversation under key
RestartStep(key) ==
    \E body \in env.bodies \cup env.warmBodies :
       /\ IsRestart(TextOf(body))
       /\ ~isHandoffMode(handoffMode, key)
       /\ StageAt(conversations, heap, key) = STAGES.COMPLETED
       /\ Webhook(key, body)

\* C16: the data of a Conversation at COMPLETED or HANDOFF are changed by no
\* step but the explicit restart.
C16_DataImmutableAfterCompletion ==
    [][\A key \in DOMAIN conversations :
          /\ StageAt(conversations, heap, key)
               \in {STAGES.COMPLETED, STAGES.HANDOFF}
          /\ ~RestartStep(key)
          => /\ MapHas(conversations', key)
             /\ DataAt(conversations', heap', key)
                  = DataAt(conversations, heap, key)]_vars

\* the records are in the order they were stored in
InInsertionOrder(h) ==
    \A i, j \in 1..Len(h) : i < j => h[i].timestamp < h[j].timestamp

\* what getHistory answers for phoneNumber is the History of its sender
\* identity, whole and in order, with its length; nothing when there is none
AnswersHistory(phoneNumber) ==
    LET k == StripNonDigits(phoneNumber)
        answer == HistoryResponse(messageHistory, phoneNumber)
    IN  /\ answer.success
        /\ answer.phoneNumber = k
        /\ answer.messages = (IF k \in DOMAIN messageHistory
                              THEN messageHistory[k] ELSE <<>>)
        /\ answer.messageCount = Len(answer.messages)
        /\ InInsertionOrder(answer.messages)

\* C17: getHistory answers, for every sender and an unknown one too, the
\* History in insertion order with its length (empty and 0 when there is
\* none), and changes no store.
C17_GetHistoryReadOnly ==
    /\ [](\A phoneNumber \in Phones \cup {OtherPhone} :
             AnswersHistory(phoneNumber))
    /\ [][\A phoneNumber \in Phones \cup {OtherPhone} :
             GetHistory(phoneNumber) =>
                UNCHANGED <<conversations, heap, messageHistory, handoffMode>>]_vars

\* the sender written as '+1' has a History of all three roles, which the
\* answer lists; the unknown number has none, and no entry
C17_Witness ==
    /\ \A role \in {"customer", "bot", "sales"} :
          \E i \in 1..HistoryResponse(messageHistory, PlusPhone).messageCount :
             HistoryResponse(messageHistory, PlusPhone).messages[i].sender = role
    /\ HistoryResponse(messageHistory, OtherPhone).messageCount = 0
    /\ OtherPhone \notin DOMAIN messageHistory

\* the sender identities that have an entry in a store
SendersIn(m) == {StripNonDigits(key) : key \in DOMAIN m}

\* C19: the status query's handoff count is the number of senders whose
\* Handoff flag is true, and its conversation and history counts are the
\* numbers of senders having a Conversation and a History.
C19_StatusCounts ==
    LET answer == HealthResponse(conversations, messageHistory, handoffMode,
                                 sfConnection)
    IN  /\ answer.handoffSessions
             = Cardinality({k \in SendersIn(handoffMode) :
                               isHandoffMode(handoffMode, k)})
        /\ answer.activeConversations = Cardinality(SendersIn(conversations))
        /\ answer.storedHistories = Cardinality(SendersIn(messageHistory))

\* C20: for every sender that has a Conversation, the Handoff flag is true
\* exactly when the stage of the Conversation is HANDOFF.
C20_FlagStageAgreement ==
    \A k \in CleanPhones :
       MapHas(conversations, k) =>
          (isHandoffMode(handoffMode, k)
             <=> StageAt(conversations, heap, k) = STAGES.HANDOFF)

\* the handler in slot s comes back from createLeadInSalesforce in this step
\* and commits its conversation object
LateCommit(s) ==
    /\ calls[s].kind = "inbound"
    /\ \/ \E outcome \in CreateOutcomes : CreateDone(s, outcome)
       \/ \E ok \in BOOLEAN : ConnectDone(s, ok) /\ ~sfConnection'

\* since the handler in slot s read the Conversation of its sender, another
\* object has been committed under the sender's key
Superseded(s) ==
    /\ MapHas(conversations, calls[s].userPhone)
    /\ conversations[calls[s].userPhone] # calls[s].conv

\* C21: a handler that read the sender's Conversation before another one was
\* committed does not overwrite the committed one: a handler that comes back
\* from createLeadInSalesforce and finds another object under its sender's
\* key leaves that object where it is.
C21_NoLostUpdate ==
    [][\A s \in Slots :
          Superseded(s) /\ LateCommit(s) =>
             conversations'[calls[s].userPhone]
               = conversations[calls[s].userPhone]]_vars

\* the send of the agent's text in slot s fails in this step
AgentSendFailed(s) ==
    /\ calls[s].kind = "sales"
    /\ AgentSendDone(s, FALSE)

\* C22: when the send of handleAgentOverride fails, no record is appended
\* to any History, the Handoff flags and the Conversations are as they
\* were, and the caller is answered success: false with status 500.
C22_AgentOverrideFailsAtomically ==
    [][\A s \in Slots :
          AgentSendFailed(s) =>
             /\ UNCHANGED <<messageHistory, handoffMode, conversations, heap>>
             /\ ~SendMessageResponse(FALSE).success
             /\ SendMessageResponse(FALSE).status = 500]_vars

\* every customer record of h has got its bot reply stored
AllAnswered(h) ==
    Cardinality({i \in 1..Len(h) : h[i].sender = "customer"})
      = Cardinality({i \in 1..Len(h) : h[i].sender = "bot"})

\* An agent's send has failed and its handler is over: the one failure the
\* environment injects is spent, no handler is in flight, and it was not
\* spent on a bot's send (every customer record has its bot record) nor on
\* a lead (no History holds the reply that ends createLeadInSalesforce,
\* thanks or apology); the sender has a Conversation and a History, and no
\* Handoff flag was ever set.
C22_Witness ==
    /\ phase.name = "open"
    /\ failures = 1
    /\ \A s \in Slots : calls[s].pc = "idle"
    /\ handoffMode = <<>>
    /\ PlainPhone \in DOMAIN conversations
    /\ DOMAIN messageHistory = {PlainPhone}
    /\ Len(messageHistory[PlainPhone]) > 0
    /\ AllAnswered(messageHistory[PlainPhone])
    /\ \A i \in 1..Len(messageHistory[PlainPhone]) :
          messageHistory[PlainPhone][i].sender = "bot" =>
             messageHistory[PlainPhone][i].message.tpl
               \notin {"thankYou", "leadFailed"}

====
